---- MODULE Spec2Model ----
(***************************************************************************)
(* terraframe: the in-memory entity store (store.py), the entity models    *)
(* and their create operations (models.py), the sorted collections         *)
(* (custom_collections.py) and the YAML walk (utils.py, __init__.py).      *)
(*                                                                         *)
(* An entity is a record of its pydantic fields.  A stored element is a    *)
(* record [obj, h]: the entity and the hash under which the collection's   *)
(* internal set filed it when it was added.  Equality of entities is       *)
(* equality of their string forms (models.py:40-41), which is equality of  *)
(* the records here: a config mapping is kept as the sequence of its       *)
(* (key, value) pairs in insertion order, the way str() prints it.         *)
(***************************************************************************)
EXTENDS Integers, Sequences, FiniteSets, TLC

VARIABLES
  records,    \* TFModelsGlobalStore._records: type -> sorted sequence of [obj, h]
  rsi_dict,   \* the HashableDict() object of models.py:272
  last,       \* the last operation: its name, its argument, its outcome
  nops,       \* number of operations run so far
  created_rs, \* history: the payloads RemoteStateModel.create was called with
  doc,        \* the mapping loaded from terraframe.yaml
  calls,      \* history: the factory_for_yaml_data invocations of the walk
  disk,       \* the project directory: the generated files and their writes
  class_template_name \* the class attribute _template_name of each renderable class

vars == <<records, rsi_dict, last, nops, created_rs, doc, calls, disk,
         class_template_name>>

\* Number of operations of one run.
MaxOps == 4

---------------------------------------------------------------------------
(* Entity types, by class name.                                            *)

RS  == "RemoteStateModel"
VAR == "ChildModuleVarModel"
OUT == "ChildModuleOutputModel"
RSI == "RemoteStatateInputModel"
CM  == "ChildModuleModel"
DEP == "DeploymentModel"

ModelTypes == {RS, VAR, OUT, RSI, CM, DEP}

\* _err_on_duplicate: False on the base class, True on DeploymentModel.
ErrOnDuplicate(t) == t = DEP

\* _yaml_directive of each class that declares one.
YamlDirective(t) ==
  CASE t = RS  -> "remote_states"
    [] t = CM  -> "child_modules"
    [] t = DEP -> "deployments"
    [] OTHER   -> "None"

OK          == "ok"
NotFound    == "NotFoundError"
Ambiguous   == "AmbiguousResultError"
Duplicate   == "DuplicateEntityError"

---------------------------------------------------------------------------
(* Python's order on the strings that occur as names.                      *)

NameOrder == <<"d", "e", "m", "n", "o", "p", "u", "v", "w", "x", "y">>

Ord(s) == CHOOSE i \in DOMAIN NameOrder : NameOrder[i] = s

StrLt(a, b) == Ord(a) < Ord(b)

\* TerraFrameBaseModel.key: the values of the attributes named in _key.
Key(t, o) ==
  CASE t = DEP -> <<o.index, o.name>>
    [] t = RSI -> <<o.var, o.output>>
    [] OTHER   -> <<o.name>>

\* TerraFrameBaseModel.__lt__ on entities whose key is (name,):
\* self.key <= other.key.
ModelLt(a, b) == ~ StrLt(b.name, a.name)

\* key(a) < key(b) as Python compares the two key tuples: the first position
\* where the elements differ (by ==) decides, by the elements' own <.
KeyLt(t, a, b) ==
  CASE t = DEP ->
         \/ a.index < b.index
         \/ a.index = b.index /\ StrLt(a.name, b.name)
    [] t = RSI ->
         IF a.var # b.var THEN ModelLt(a.var, b.var)
         ELSE IF a.output # b.output THEN ModelLt(a.output, b.output)
         ELSE FALSE
    [] OTHER -> StrLt(a.name, b.name)

\* The comparison a sorted list uses: of keys (TerraframeSortedSet, built with
\* key=lambda model_obj: model_obj.key) or of the entities (a plain SortedSet).
Less(byKey, t, a, b) == IF byKey THEN KeyLt(t, a, b) ELSE ModelLt(a, b)

\* bisect_right over the sorted list xs (0-based lo, hi).
RECURSIVE BisectRight(_, _, _, _, _, _)
BisectRight(byKey, t, xs, x, lo, hi) ==
  IF lo >= hi THEN lo
  ELSE LET mid == (lo + hi) \div 2 IN
       IF Less(byKey, t, x, xs[mid + 1])
       THEN BisectRight(byKey, t, xs, x, lo, mid)
       ELSE BisectRight(byKey, t, xs, x, mid + 1, hi)

InsertAt(xs, pos, x) ==
  SubSeq(xs, 1, pos) \o <<x>> \o SubSeq(xs, pos + 1, Len(xs))

---------------------------------------------------------------------------
(* Hashes.  HashableDict.__hash__ is hash((frozenset(self),                 *)
(* frozenset(self.values()))): the set of keys and the set of values.      *)
(* TerraFrameBaseModel.__hash__ hashes the type and the field values.      *)

DictHash(d) ==
  <<{d[i][1] : i \in DOMAIN d}, {d[i][2] : i \in DOMAIN d}>>

RECURSIVE HashOf(_, _, _)
HashOf(t, o, d) ==
  CASE t = RS  -> <<t, o.name, o.backend, DictHash(o.config)>>
    [] t = VAR -> <<t, o.name>>
    [] t = OUT -> <<t, o.name, HashOf(RS, o.remote_state, d)>>
    [] t = RSI -> <<t, HashOf(VAR, o.var, d), HashOf(OUT, o.output, d)>>
    [] t = CM  -> <<t, o.name, o.source,
                    [i \in DOMAIN o.child_module_vars |->
                       HashOf(VAR, o.child_module_vars[i], d)],
                    [i \in DOMAIN o.remote_states_inputs |->
                       HashOf(RSI, o.remote_states_inputs[i], d)]>>
    [] t = DEP -> <<t, o.index, o.name, o.prefix,
                    [i \in DOMAIN o.child_modules |->
                       HashOf(CM, o.child_modules[i], d)],
                    [i \in DOMAIN o.remote_states |->
                       HashOf(RS, o.remote_states[i], d)],
                    DictHash(d)>>

---------------------------------------------------------------------------
(* SortedSet: a set (hash and ==) beside a sorted list.                     *)

\* value in self._set: an element filed under the same hash that is == value.
Contains(coll, o, h) ==
  \E i \in DOMAIN coll : coll[i].h = h /\ coll[i].obj = o

\* The objects of a collection, in list order.
Objs(coll) == [i \in DOMAIN coll |-> coll[i].obj]

\* Variant: the value is put at the end of the list.
SortedSetAdd_Append(t, coll, o, h) ==
  IF Contains(coll, o, h) THEN coll ELSE Append(coll, [obj |-> o, h |-> h])

\* TerraframeSortedSet.add: nothing when the set holds the value, else the
\* value goes into the set and into the list at bisect_right of its key.
SortedSetAdd(t, coll, o, h) ==
  IF Contains(coll, o, h) THEN coll
  ELSE InsertAt(coll,
                BisectRight(TRUE, t, Objs(coll), o, 0, Len(coll)),
                [obj |-> o, h |-> h])

\* Variant: a list that keeps what it is given, in the order given.
PlainSortedSetAdd_List(xs, o) == Append(xs, o)

\* SortedSet().add of models.py:289-296, on entities that are never changed
\* after their creation (their hash is the hash they were filed under).
PlainSortedSetAdd(xs, o) ==
  IF \E i \in DOMAIN xs : xs[i] = o THEN xs
  ELSE InsertAt(xs, BisectRight(FALSE, "plain", xs, o, 0, Len(xs)), o)

---------------------------------------------------------------------------
(* TFModelsGlobalStore.  A store state s is [records, rsid, tmpl]: the     *)
(* records, the shared mapping and the class attributes _template_name.   *)

\* save: the duplicate error needs membership and the strict flag.
save(s, t, o) ==
  LET h    == HashOf(t, o, s.rsid)
      coll == s.records[t]
  IN IF Contains(coll, o, h) /\ ErrOnDuplicate(t)
     THEN [s |-> s, err |-> Duplicate]
     ELSE [s   |-> [s EXCEPT !.records[t] = SortedSetAdd(t, coll, o, h)],
           err |-> OK]

\* _search with one search pair: a new TerraframeSortedSet of the matching
\* elements.  The new set files every element under its present hash, so
\* elements that are == are kept once.
search(s, t, attr, value) ==
  {s.records[t][i].obj : i \in {j \in DOMAIN s.records[t] :
                                  s.records[t][j].obj[attr] = value}}

\* Variant: the check of len(search) > 1 is left out.
get_NoAmbiguityCheck(s, t, attr, value) ==
  LET found == search(s, t, attr, value) IN
  IF found = {} THEN [err |-> NotFound, n |-> 0]
  ELSE [err |-> OK, n |-> 1, obj |-> CHOOSE o \in found : TRUE]

\* get: not found on an empty search, ambiguous on len(search) > 1.
get(s, t, attr, value) ==
  LET found == search(s, t, attr, value) IN
  IF found = {} THEN [err |-> NotFound, n |-> 0]
  ELSE IF Cardinality(found) > 1
       THEN [err |-> Ambiguous, n |-> Cardinality(found)]
       ELSE [err |-> OK, n |-> 1, obj |-> CHOOSE o \in found : TRUE]

\* get_all: the collection itself, in list order.
get_all(s, t) == Objs(s.records[t])

---------------------------------------------------------------------------
(* The module directories on disk: get_all_variables_from_module(source)   *)
(* yields the first quoted token of every line that starts with "variable", *)
(* in file order, repeated when the file repeats it.                       *)

Sources == {"srcA", "srcB"}

get_all_variables_from_module(source) ==
  IF source = "srcA" THEN <<"v", "u">> ELSE <<"u", "u">>

---------------------------------------------------------------------------
(* The create operations.  Each takes a store state and a payload and      *)
(* yields [s, err, obj]: the store state it leaves, its outcome and, on    *)
(* success, the entity it returns.                                         *)

\* TerraFrameBaseModel.create: validate, save, return the new entity.
create(s, t, o) ==
  LET r == save(s, t, o) IN [s |-> r.s, err |-> r.err, obj |-> o]

\* The classes derived from RenderableModel.
Renderable == {RS, VAR, RSI, CM, DEP}

\* _template_name before any creation: declared by ChildModuleVarModel
\* only.
NoTemplates == [t \in Renderable |-> IF t = VAR THEN "variables" ELSE "unset"]

\* re.findall("[A-Z][^A-Z]*", cls.__name__).
SplitAtCapitals(t) ==
  CASE t = RS  -> <<"Remote", "State", "Model">>
    [] t = VAR -> <<"Child", "Module", "Var", "Model">>
    [] t = RSI -> <<"Remote", "Statate", "Input", "Model">>
    [] t = CM  -> <<"Child", "Module", "Model">>
    [] t = DEP -> <<"Deployment", "Model">>

\* list.remove(x): without the first element equal to x.
RemoveFirst(xs, x) ==
  LET i == CHOOSE n \in DOMAIN xs : xs[n] = x /\ \A k \in 1..(n - 1) : xs[k] # x
  IN SubSeq(xs, 1, i - 1) \o SubSeq(xs, i + 1, Len(xs))

\* str.lower on the words of the class names.
Lower(w) ==
  CASE w = "Remote" -> "remote" [] w = "State" -> "state"
    [] w = "Statate" -> "statate" [] w = "Input" -> "input"
    [] w = "Child" -> "child" [] w = "Module" -> "module"
    [] w = "Var" -> "var" [] w = "Deployment" -> "deployment"
    [] w = "Model" -> "model"

\* "_".join(words).lower().
RECURSIVE JoinLower(_)
JoinLower(words) ==
  IF Len(words) = 1 THEN Lower(words[1])
  ELSE Lower(words[1]) \o "_" \o JoinLower(Tail(words))

\* The template name derived from the class name.
ClassTemplateName(t) ==
  LET words == SplitAtCapitals(t) IN
  JoinLower(IF \E i \in DOMAIN words : words[i] = "Model"
            THEN RemoveFirst(words, "Model") ELSE words)

\* kwargs.get("template_name"), "None" when the payload has no such field.
Informed(dict_args) ==
  IF "template_name" \in DOMAIN dict_args THEN dict_args.template_name
  ELSE "None"

\* RenderableModel._set_template: the class attribute is assigned only when
\* the class has none.
set_template(s, t, dict_args) ==
  IF s.tmpl[t] # "unset" THEN s
  ELSE [s EXCEPT !.tmpl[t] = IF Informed(dict_args) # "None"
                             THEN Informed(dict_args)
                             ELSE ClassTemplateName(t)]

\* RenderableModel.create: _set_template, then the inherited create.
RenderableCreate(s, t, o, dict_args) ==
  create(set_template(s, t, dict_args), t, o)

\* The RemoteStateModel that validation builds from a payload.
RemoteStateOf(p) ==
  [name |-> p.name, backend |-> p.backend, config |-> p.config]

\* RemoteStateModel.create (inherited): name, backend, config.
RemoteStateCreate(s, p) == RenderableCreate(s, RS, RemoteStateOf(p), p)

\* models.py:215-222: one ChildModuleVarModel.create per variable of the file.
RECURSIVE CreateVars(_, _, _)
CreateVars(s, names, objs) ==
  IF names = <<>> THEN [s |-> s, err |-> OK, objs |-> objs]
  ELSE LET r == RenderableCreate(s, VAR, [name |-> Head(names)],
                                 [name |-> Head(names)]) IN
       CreateVars(r.s, Tail(names), Append(objs, r.obj))

\* Variant: an entry whose remote state is not found is passed over.
RECURSIVE CreateInputs_SkipMissing(_, _, _)
CreateInputs_SkipMissing(s, inputs, objs) ==
  IF inputs = <<>> THEN [s |-> s, err |-> OK, objs |-> objs]
  ELSE
    LET e  == Head(inputs)
        gv == get(s, VAR, "name", e.var)
        gr == get(s, RS, "name", e.remote_state)
    IN IF gv.err # OK \/ gr.err # OK
       THEN CreateInputs_SkipMissing(s, Tail(inputs), objs)
       ELSE
         LET ro == create(s, OUT, [name |-> e.output, remote_state |-> gr.obj])
             rb == RenderableCreate(ro.s, RSI, [var |-> gv.obj, output |-> ro.obj],
                                   [var |-> gv.obj, output |-> ro.obj])
         IN CreateInputs_SkipMissing(rb.s, Tail(inputs), Append(objs, rb.obj))

\* models.py:224-241: per remote_state_inputs entry, look the variable up,
\* look the remote state up, create the output, create the binding.
RECURSIVE CreateInputs(_, _, _)
CreateInputs(s, inputs, objs) ==
  IF inputs = <<>> THEN [s |-> s, err |-> OK, objs |-> objs]
  ELSE
    LET e  == Head(inputs)
        gv == get(s, VAR, "name", e.var)
    IN IF gv.err # OK THEN [s |-> s, err |-> gv.err, objs |-> objs]
       ELSE
         LET gr == get(s, RS, "name", e.remote_state) IN
         IF gr.err # OK THEN [s |-> s, err |-> gr.err, objs |-> objs]
         ELSE
           LET ro == create(s, OUT, [name |-> e.output, remote_state |-> gr.obj])
               rb == RenderableCreate(ro.s, RSI, [var |-> gv.obj, output |-> ro.obj],
                                   [var |-> gv.obj, output |-> ro.obj])
           IN CreateInputs(rb.s, Tail(inputs), Append(objs, rb.obj))

\* ChildModuleModel.create.
ChildModuleCreate(s, p) ==
  LET rv == CreateVars(s, get_all_variables_from_module(p.source), <<>>)
      ri == CreateInputs(rv.s, p.remote_state_inputs, <<>>)
  IN IF ri.err # OK THEN [s |-> ri.s, err |-> ri.err]
     ELSE RenderableCreate(ri.s, CM,
                           [name |-> p.name, source |-> p.source,
                            child_module_vars |-> rv.objs,
                            remote_states_inputs |-> ri.objs], p)

\* Variant: only the first entry of the child module is looked at.
CollectRemoteStates_FirstOnly(s, inputs, rss) ==
  IF inputs = <<>> THEN [err |-> OK, rss |-> rss]
  ELSE LET g == get(s, RS, "name", Head(inputs).remote_state) IN
       IF g.err # OK THEN [err |-> g.err, rss |-> rss]
       ELSE [err |-> OK, rss |-> PlainSortedSetAdd(rss, g.obj)]

\* models.py:295-296: the remote states named by one child-module entry of the
\* payload, added to the SortedSet _remote_states.
RECURSIVE CollectRemoteStates(_, _, _)
CollectRemoteStates(s, inputs, rss) ==
  IF inputs = <<>> THEN [err |-> OK, rss |-> rss]
  ELSE LET g == get(s, RS, "name", Head(inputs).remote_state) IN
       IF g.err # OK THEN [err |-> g.err, rss |-> rss]
       ELSE CollectRemoteStates(s, Tail(inputs), PlainSortedSetAdd(rss, g.obj))

\* models.py:292-296: per child-module entry of the payload.
RECURSIVE ResolveChildModules(_, _, _, _)
ResolveChildModules(s, cms, found, rss) ==
  IF cms = <<>> THEN [err |-> OK, cms |-> found, rss |-> rss]
  ELSE LET g == get(s, CM, "name", Head(cms).name) IN
       IF g.err # OK THEN [err |-> g.err, cms |-> found, rss |-> rss]
       ELSE LET c == CollectRemoteStates(s, Head(cms).remote_state_inputs, rss) IN
            IF c.err # OK THEN [err |-> c.err, cms |-> found, rss |-> rss]
            ELSE ResolveChildModules(s, Tail(cms),
                                     PlainSortedSetAdd(found, g.obj), c.rss)

\* dict[k] = v on a mapping kept as its sequence of (key, value) pairs.
DictSet(d, k, v) ==
  IF \E i \in DOMAIN d : d[i][1] = k
  THEN [i \in DOMAIN d |-> IF d[i][1] = k THEN <<k, v>> ELSE d[i]]
  ELSE Append(d, <<k, v>>)

\* The inner loop of set_remote_state_inputs_dict, over one child module.
RECURSIVE SetInputs(_, _)
SetInputs(d, rsis) ==
  IF rsis = <<>> THEN d
  ELSE SetInputs(DictSet(d, Head(rsis).var.name,
                         <<Head(rsis).output.remote_state.name,
                           Head(rsis).output.name>>),
                 Tail(rsis))

\* DeploymentModel.set_remote_state_inputs_dict, on the dictionary d that the
\* deployment's remote_state_inputs_dict field refers to.
RECURSIVE set_remote_state_inputs_dict(_, _)
set_remote_state_inputs_dict(d, cms) ==
  IF cms = <<>> THEN d
  ELSE set_remote_state_inputs_dict(SetInputs(d, Head(cms).remote_states_inputs),
                                    Tail(cms))

\* The DeploymentModel that validation builds from the payload as updated at
\* models.py:298-303.
DeploymentOf(p, cms, rss) ==
  [index |-> p.index, name |-> p.name, prefix |-> p.prefix,
   child_modules |-> cms, remote_states |-> rss]

\* DeploymentModel.create.  The field remote_state_inputs_dict is not in the
\* payload, so validation gives the new deployment the field's default: the
\* one HashableDict() object of models.py:272 (pydantic copies a default only
\* when it is unhashable, and HashableDict defines __hash__).  Every
\* deployment's mapping is therefore s.rsid.
DeploymentCreate(s, p) ==
  LET r == ResolveChildModules(s, p.child_modules, <<>>, <<>>) IN
  IF r.err # OK THEN [s |-> s, err |-> r.err]
  ELSE
    LET o == DeploymentOf(p, r.cms, r.rss)
        c == RenderableCreate(s, DEP, o, p)
    IN IF c.err # OK THEN [s |-> c.s, err |-> c.err]
       ELSE [s   |-> [c.s EXCEPT !.rsid =
                        set_remote_state_inputs_dict(c.s.rsid, o.child_modules)],
             err |-> OK, obj |-> o]

---------------------------------------------------------------------------
(* The inputs of the operations.                                           *)

CfgAB == << <<"a", "1">>, <<"b", "2">> >>
CfgBA == << <<"b", "2">>, <<"a", "1">> >>

RemoteStatePayloads ==
  {[name |-> n, backend |-> f[1], config |-> f[2]] :
     n \in {"x", "y"}, f \in {<<"s3", CfgAB>>, <<"s3", CfgBA>>, <<"gcs", CfgAB>>}}

In(v, o, r) == [var |-> v, output |-> o, remote_state |-> r]

InputsNone  == <<>>
InputsTwice == <<In("v", "p", "x"), In("v", "o", "x")>>
InputsBoth  == <<In("u", "o", "y"), In("u", "o", "x")>>

Cm(n, src, inputs) ==
  [name |-> n, source |-> src, remote_state_inputs |-> inputs]

ChildModulePayloads ==
  {Cm(n, f[1], f[2]) :
     n \in {"m", "n"},
     f \in {<<"srcA", InputsNone>>, <<"srcA", InputsTwice>>,
            <<"srcB", InputsTwice>>, <<"srcB", InputsBoth>>}}

DeploymentPayloads ==
  {[index |-> k[1], name |-> k[2], prefix |-> k[3], child_modules |-> cms] :
     k \in {<<0, "e", "">>, <<0, "e", "p_">>, <<1, "d", "">>},
     cms \in {<<>>,
              <<Cm("m", "srcA", InputsTwice)>>,
              <<Cm("m", "srcB", InputsBoth)>>,
              <<Cm("n", "srcA", InputsNone), Cm("m", "srcA", InputsNone)>>}}

\* get(type, {attribute: value}) calls.
Queries ==
  {[t |-> RS, attr |-> "name", value |-> "x"],
   [t |-> RS, attr |-> "backend", value |-> "s3"],
   [t |-> CM, attr |-> "name", value |-> "m"],
   [t |-> OUT, attr |-> "name", value |-> "o"],
   [t |-> DEP, attr |-> "name", value |-> "e"],
   [t |-> DEP, attr |-> "index", value |-> 1]}

---------------------------------------------------------------------------
(* The state machine of the store and the create operations.               *)

\* The project directory before anything is generated: no deployment
\* directory, no file written.
NoDisk == [files |-> <<>>, writes |-> <<>>]

St == [records |-> records, rsid |-> rsi_dict, tmpl |-> class_template_name]

Ret(r) == IF r.err = OK THEN <<r.obj>> ELSE <<>>

Init ==
  /\ records = [t \in ModelTypes |-> <<>>]
  /\ rsi_dict = <<>>
  /\ last = [op |-> "init", arg |-> <<>>, err |-> OK, ret |-> <<>>]
  /\ nops = 0
  /\ created_rs = {}
  /\ doc = <<>>
  /\ calls = <<>>
  /\ disk = NoDisk
  /\ class_template_name = NoTemplates

Ran(op, p, r) ==
  /\ records' = r.s.records
  /\ rsi_dict' = r.s.rsid
  /\ last' = [op |-> op, arg |-> p, err |-> r.err, ret |-> Ret(r)]
  /\ nops' = nops + 1
  /\ class_template_name' = r.s.tmpl
  /\ UNCHANGED <<doc, calls, disk>>

DoRemoteStateCreate ==
  /\ nops < MaxOps
  /\ \E p \in RemoteStatePayloads :
       /\ Ran("RemoteStateModel.create", p, RemoteStateCreate(St, p))
       /\ created_rs' = created_rs \cup {p}

DoChildModuleCreate ==
  /\ nops < MaxOps
  /\ \E p \in ChildModulePayloads :
       Ran("ChildModuleModel.create", p, ChildModuleCreate(St, p))
  /\ UNCHANGED created_rs

DoDeploymentCreate ==
  /\ nops < MaxOps
  /\ \E p \in DeploymentPayloads :
       Ran("DeploymentModel.create", p, DeploymentCreate(St, p))
  /\ UNCHANGED created_rs

DoGet ==
  /\ \E q \in Queries :
       LET r == get(St, q.t, q.attr, q.value) IN
       last' = [op |-> "get", arg |-> q, err |-> r.err, ret |-> Ret(r)]
  /\ UNCHANGED <<records, rsi_dict, nops, created_rs, doc, calls, disk,
                 class_template_name>>

Next ==
  \/ DoRemoteStateCreate
  \/ DoChildModuleCreate
  \/ DoDeploymentCreate
  \/ DoGet

Spec == Init /\ [][Next]_vars

---------------------------------------------------------------------------
(* The loaded YAML document.  A mapping is the sequence of its (key, value) *)
(* pairs in the order of the file; a value is a record tagged by its kind.  *)

Str(v)      == [kind |-> "str", v |-> v]
Map(m)      == [kind |-> "dict", m |-> m]
List(items) == [kind |-> "list", items |-> items]

HasKey(m, k) == \E i \in DOMAIN m : m[i][1] = k

Field(m, k) == m[CHOOSE i \in DOMAIN m : m[i][1] = k][2]

\* key_to_model_mapping.get(yaml_key): the class whose directive is the key.
ModelFor(k) ==
  IF k # "None" /\ \E t \in ModelTypes : YamlDirective(t) = k
  THEN CHOOSE t \in ModelTypes : YamlDirective(t) = k
  ELSE "None"

\* The dict_args each create reads from an element of the document.
ConfigOf(m) == [i \in DOMAIN m |-> <<m[i][1], m[i][2].v>>]

RemoteStateArgs(e) ==
  [name    |-> Field(e, "name").v,
   backend |-> Field(e, "backend").v,
   config  |-> ConfigOf(Field(e, "config").m)]

InputArgs(e) ==
  In(Field(e, "var").v, Field(e, "output").v, Field(e, "remote_state").v)

ChildModuleArgs(e) ==
  LET xs == Field(e, "remote_state_inputs").items IN
  Cm(Field(e, "name").v, Field(e, "source").v,
     [i \in DOMAIN xs |-> InputArgs(xs[i])])

DeploymentArgs(e, index) ==
  LET xs == Field(e, "child_modules").items IN
  [index         |-> index,
   name          |-> Field(e, "name").v,
   prefix        |-> IF HasKey(e, "prefix") THEN Field(e, "prefix").v ELSE "",
   child_modules |-> [i \in DOMAIN xs |-> ChildModuleArgs(xs[i])]]

\* for _dict in yaml_data: cls.create(dict_args=_dict); DeploymentModel's
\* factory puts the position of the element into it as "index" first.
\* acc is [s, err, calls]: the store, the error raised so far, the trace.
\* F applied to the value of x: x is evaluated once, as a statement's
\* operand is.
With(F(_), x) == CHOOSE y \in {F(v) : v \in {x}} : TRUE

\* cls.create(dict_args=e) of the class t; acc.err is OK.
CreateOne(t, e, index, acc) ==
  LET Made(r) == [acc EXCEPT !.s = r.s, !.err = r.err] IN
  CASE t = RS  -> With(Made, RemoteStateCreate(acc.s, RemoteStateArgs(e)))
    [] t = CM  -> With(Made, ChildModuleCreate(acc.s, ChildModuleArgs(e)))
    [] t = DEP ->
         \* dict_args["child_modules"] of models.py:292
         IF ~ HasKey(e, "child_modules") THEN [acc EXCEPT !.err = "KeyError"]
         ELSE With(Made, DeploymentCreate(acc.s, DeploymentArgs(e, index)))

RECURSIVE CreateEach(_, _, _, _)
CreateEach(t, items, index, acc) ==
  LET Rest(a) ==
        IF items = <<>> \/ a.err # OK THEN a
        ELSE CreateEach(t, Tail(items), index + 1,
                        CreateOne(t, Head(items), index, a))
  IN  With(Rest, acc)

factory_for_yaml_data(t, yaml_data, acc) ==
  LET a == [acc EXCEPT !.calls = Append(@, [cls |-> t, data |-> yaml_data])] IN
  \* acc is a value here: its callers pass the evaluated walk.
  IF yaml_data.kind = "list" \/ (yaml_data.kind = "dict" /\ t # DEP)
  THEN CreateEach(t, IF yaml_data.kind = "list" THEN yaml_data.items
                     ELSE <<yaml_data.m>>, 0, a)
  ELSE IF yaml_data.kind = "dict" /\ yaml_data.m = <<>> THEN a
  ELSE [a EXCEPT !.err = IF t = DEP THEN "AttributeError" ELSE "Exception"]

\* The walk, with the call stack of its recursion spelled out.  A frame is
\* a loop of create_all_models_from_yaml over the keys m still to visit, of
\* utils (kind "utils") or of the class Terraframe (kind "Terraframe"), or
\* the factory call that follows the walk of a list's elements.
LoopFrame(kind, m) == [kind |-> kind, m |-> m, cls |-> "None", data |-> <<>>]

FactoryFrame(cls, data) ==
  [kind |-> "factory", m |-> <<>>, cls |-> cls, data |-> data]

\* for dict_element in yaml_dict[yaml_key]:
\*     create_all_models_from_yaml(dict_element, key_to_model_mapping)
\* The name is the function of utils in both modules (__init__.py:10).
ElementFrames(value) ==
  IF value.kind = "list"
  THEN [i \in DOMAIN value.items |-> LoopFrame("utils", value.items[i])]
  ELSE <<>>

\* One key of a loop: the frames it puts before the rest of the loop.
KeyFrames(kind, yaml_key, value) ==
  LET model_cls == ModelFor(yaml_key) IN
  IF model_cls # "None"
  THEN ElementFrames(value) \o <<FactoryFrame(model_cls, value)>>
  ELSE IF kind = "utils" THEN <<>>
  ELSE <<FactoryFrame("None", value)>>

\* The frames left after the top frame f has made one step.
StackAfter(f, stack) ==
  IF f.kind = "factory" \/ f.m = <<>> THEN Tail(stack)
  ELSE KeyFrames(f.kind, Head(f.m)[1], Head(f.m)[2])
         \o <<LoopFrame(f.kind, Tail(f.m))>> \o Tail(stack)

\* What one step of the top frame f does: a factory frame calls the factory
\* (of None: AttributeError), a loop frame only moves on.
StepOf(f, a) ==
  IF f.kind # "factory" THEN a
  ELSE IF f.cls = "None" THEN [a EXCEPT !.err = "AttributeError"]
  ELSE factory_for_yaml_data(f.cls, f.data, a)

RECURSIVE RunWalk(_, _)
RunWalk(stack, acc) ==
  LET Rest(a) ==
        IF stack = <<>> \/ a.err # OK THEN a
        ELSE RunWalk(StackAfter(Head(stack), stack), StepOf(Head(stack), a))
  IN  With(Rest, acc)

\* utils.create_all_models_from_yaml
create_all_models_from_yaml(yaml_dict, acc) ==
  RunWalk(<<LoopFrame("utils", yaml_dict)>>, acc)

\* Terraframe.create_all_models_from_yaml: the factory call of line 107
\* stands outside `if model_cls:`.
Terraframe_create_all_models_from_yaml(yaml_dict, acc) ==
  RunWalk(<<LoopFrame("Terraframe", yaml_dict)>>, acc)

---------------------------------------------------------------------------
(* Deployment-template expansion.  The document is changed in place, so an *)
(* expansion that raises leaves the changes it made before.                *)

\* dict.pop(k, None): the mapping without the key.
RemoveKey(m, k) ==
  LET Other(p) == p[1] # k IN SelectSeq(m, Other)

\* dict.update(other): every pair of other set in m, in other's order.
RECURSIVE Update(_, _)
Update(m, other) ==
  IF other = <<>> THEN m
  ELSE Update(DictSet(m, Head(other)[1], Head(other)[2]), Tail(other))

\* Truthiness of a value: an empty mapping, list or string is false.
Truthy(value) ==
  CASE value.kind = "dict" -> value.m # <<>>
    [] value.kind = "list" -> value.items # <<>>
    [] OTHER               -> value.v # ""

\* The body of the loop over loaded_dict["deployments"] for one entry:
\* pop "deployment_template"; if it named something, update the entry with
\* templates[template_name].
ExpandEntry(templates, e) ==
  IF ~ HasKey(e, "deployment_template") THEN [entry |-> e, err |-> OK]
  ELSE LET template_name == Field(e, "deployment_template")
           popped        == RemoveKey(e, "deployment_template")
       IN  IF ~ Truthy(template_name) THEN [entry |-> popped, err |-> OK]
           ELSE IF ~ HasKey(templates, template_name.v)
           THEN [entry |-> popped, err |-> "KeyError"]
           ELSE [entry |-> Update(popped, Field(templates, template_name.v).m),
                 err   |-> OK]

\* for deployment in loaded_dict["deployments"]: ...
RECURSIVE ExpandEntries(_, _, _)
ExpandEntries(templates, items, done) ==
  IF items = <<>> THEN [items |-> done, err |-> OK]
  ELSE LET r == ExpandEntry(templates, Head(items)) IN
       IF r.err # OK
       THEN [items |-> done \o <<r.entry>> \o Tail(items), err |-> r.err]
       ELSE ExpandEntries(templates, Tail(items), Append(done, r.entry))

\* utils.exapand_terraframe_templates, and with the same body
\* Terraframe._expand_deployment_templates: [doc, err].
exapand_terraframe_templates(loaded_dict) ==
  IF ~ HasKey(loaded_dict, "deployment_templates")
  THEN [doc |-> loaded_dict, err |-> "KeyError"]
  ELSE LET templates == Field(loaded_dict, "deployment_templates") IN
       IF ~ Truthy(templates) THEN [doc |-> loaded_dict, err |-> OK]
       ELSE IF ~ HasKey(loaded_dict, "deployments")
       THEN [doc |-> loaded_dict, err |-> "KeyError"]
       ELSE LET r == ExpandEntries(templates.m,
                                   Field(loaded_dict, "deployments").items, <<>>)
                d == DictSet(loaded_dict, "deployments", List(r.items))
            IN  IF r.err # OK THEN [doc |-> d, err |-> r.err]
                ELSE [doc |-> RemoveKey(d, "deployment_templates"), err |-> OK]

---------------------------------------------------------------------------
(* The documents of a run: sections of terraframe.yaml in every order.     *)

RemoteStateEntry(p) ==
  << <<"name", Str(p.name)>>, <<"backend", Str(p.backend)>>,
     <<"config", Map([i \in DOMAIN p.config |->
                        <<p.config[i][1], Str(p.config[i][2])>>])>> >>

InputEntry(b) ==
  << <<"var", Str(b.var)>>, <<"output", Str(b.output)>>,
     <<"remote_state", Str(b.remote_state)>> >>

ChildModuleEntry(p) ==
  << <<"name", Str(p.name)>>, <<"source", Str(p.source)>>,
     <<"remote_state_inputs",
       List([i \in DOMAIN p.remote_state_inputs |->
               InputEntry(p.remote_state_inputs[i])])>> >>

DeploymentEntry(name, cms) ==
  << <<"name", Str(name)>>,
     <<"child_modules", List([i \in DOMAIN cms |-> ChildModuleEntry(cms[i])])>> >>

SecRemoteStates ==
  <<"remote_states",
    List(<<RemoteStateEntry([name |-> "y", backend |-> "s3", config |-> CfgAB]),
           RemoteStateEntry([name |-> "x", backend |-> "s3", config |-> CfgAB])>>)>>

SecRemoteState ==
  <<"remote_states",
    Map(RemoteStateEntry([name |-> "x", backend |-> "gcs", config |-> CfgBA]))>>

SecChildModules ==
  <<"child_modules", List(<<ChildModuleEntry(Cm("m", "srcA", InputsTwice))>>)>>

SecDeployments ==
  <<"deployments",
    List(<<DeploymentEntry("e", <<Cm("m", "srcA", InputsTwice)>>),
           DeploymentEntry("d", <<Cm("n", "srcA", InputsNone)>>)>>)>>

SecProject == <<"project", Str("w")>>

\* One template: a prefix and two child modules without bindings.
SecTemplates ==
  <<"deployment_templates",
    Map(<< <<"base",
             Map(<< <<"prefix", Str("p_")>>,
                    <<"child_modules",
                      List(<<ChildModuleEntry(Cm("n", "srcB", InputsNone)),
                             ChildModuleEntry(Cm("m", "srcA", InputsNone))>>)>>
                 >>)>> >>)>>

SecTemplatesEmpty == <<"deployment_templates", Map(<<>>)>>

\* Deployment "e" names the template and has a prefix of its own;
\* deployment "d" names none.
SecDeploymentsOfTemplate ==
  <<"deployments",
    List(<< << <<"name", Str("e")>>, <<"prefix", Str("q_")>>,
               <<"deployment_template", Str("base")>> >>,
            DeploymentEntry("d", <<Cm("n", "srcB", InputsNone)>>)>>)>>

Sections ==
  {SecRemoteStates, SecRemoteState, SecChildModules, SecDeployments, SecProject,
   SecTemplates, SecTemplatesEmpty, SecDeploymentsOfTemplate}

\* Number of sections of a document.
MaxSections == 3

Docs ==
  {d \in UNION {[1..n -> Sections] : n \in 0..MaxSections} :
     \A i, j \in DOMAIN d : i # j => d[i][1] # d[j][1]}

---------------------------------------------------------------------------
(* Loading: one walk of a document over the empty store.                   *)

InitLoad ==
  /\ records = [t \in ModelTypes |-> <<>>]
  /\ rsi_dict = <<>>
  /\ last = [op |-> "yaml_to_dict", arg |-> <<>>, err |-> OK, ret |-> <<>>]
  /\ nops = 0
  /\ created_rs = {}
  /\ doc \in Docs
  /\ calls = <<>>
  /\ disk = NoDisk
  /\ class_template_name = NoTemplates

Walked(op, r) ==
  /\ records' = r.s.records
  /\ rsi_dict' = r.s.rsid
  /\ calls' = r.calls
  /\ last' = [op |-> op, arg |-> <<>>, err |-> r.err, ret |-> <<>>]
  /\ nops' = nops + 1
  /\ class_template_name' = r.s.tmpl
  /\ UNCHANGED <<doc, created_rs, disk>>

\* main.py:19, and Terraframe.get_loaded_dict: the expansion of the document
\* just loaded.
DoExpandTemplates ==
  /\ last.op = "yaml_to_dict"
  /\ LET r == exapand_terraframe_templates(doc) IN
     /\ doc' = r.doc
     /\ last' = [op |-> "exapand_terraframe_templates", arg |-> <<>>,
                 err |-> r.err, ret |-> <<>>]
  /\ nops' = nops + 1
  /\ UNCHANGED <<records, rsi_dict, created_rs, calls, disk, class_template_name>>

\* A document is walked as loaded or as expanded.
CanWalk ==
  /\ last.op \in {"yaml_to_dict", "exapand_terraframe_templates"}
  /\ last.err = OK

DoCreateAllModels ==
  /\ CanWalk
  /\ Walked("create_all_models_from_yaml",
            create_all_models_from_yaml(doc, [s |-> St, err |-> OK, calls |-> calls]))

DoTerraframeCreateAllModels ==
  /\ CanWalk
  /\ Walked("Terraframe.create_all_models_from_yaml",
            Terraframe_create_all_models_from_yaml(
              doc, [s |-> St, err |-> OK, calls |-> calls]))

---------------------------------------------------------------------------
(* Materialization: the files generated for the stored deployments.  The   *)
(* disk is [files, writes]: files maps a path (a sequence of names below   *)
(* the project directory) to the content it holds, writes is the history   *)
(* of the open(..., "w") calls with the content each one left.             *)

\* RenderableModel.get_rendered_str of a ChildModuleVarModel through the
\* "variables" template with the extra fields: one variable block whose
\* quoted name is the prefix followed by the variable's name.
RenderVariable(cmv, extra_vars_dict) ==
  [keyword |-> "variable", quoted |-> extra_vars_dict.prefix \o cmv.name]

\* RenderableModel.get_rendered_str of a DeploymentModel.
RenderDeployment(deployment) ==
  [keyword |-> "deployment", quoted |-> deployment.name]

\* with open(path, "w") as f: f.write(...): the file holds what this
\* opening wrote and nothing from before.
WriteFile(d, path, content) ==
  [files  |-> DictSet(d.files, path, content),
   writes |-> Append(d.writes, [path |-> path, content |-> content])]

\* _create_maintf_file, and main.py:31-32.
create_maintf_file(d, deployment) ==
  WriteFile(d, <<deployment.name, "main.tf">>, <<RenderDeployment(deployment)>>)

\* _create_variables_file, and main.py:35-39: the file is opened for
\* writing once per child module.
RECURSIVE create_variables_file(_, _, _)
create_variables_file(d, deployment, cms) ==
  IF cms = <<>> THEN d
  ELSE
    LET vs == Head(cms).child_module_vars IN
    create_variables_file(
      WriteFile(d, <<deployment.name, "variables.tf">>,
                [i \in DOMAIN vs |->
                   RenderVariable(vs[i], [prefix |-> deployment.prefix])]),
      deployment, Tail(cms))

\* The reading of a generated variables file: the quoted name of every line
\* that starts with "variable".
VariablesOfFile(content) ==
  LET lines == SelectSeq(content, LAMBDA l : l.keyword = "variable") IN
  [i \in DOMAIN lines |-> lines[i].quoted]

\* The directories below the project directory.
ModuleFolders(d) ==
  {d.files[i][1][1] : i \in {n \in DOMAIN d.files : Len(d.files[n][1]) = 2}}

\* The variable names read from the variables files of one directory.
VarNamesOf(d, module) ==
  UNION {{VariablesOfFile(d.files[i][2])[k] :
            k \in DOMAIN VariablesOfFile(d.files[i][2])} :
           i \in {n \in DOMAIN d.files :
                    d.files[n][1] = <<module, "variables.tf">>}}

\* create_empty_yml_vars_file: a mapping, written as the set of its
\* (directory name, names mapped to null) pairs.
create_empty_yml_vars_file(d, file_name) ==
  WriteFile(d, <<file_name>>,
            {<<module, VarNamesOf(d, module)>> : module \in ModuleFolders(d)})

\* The body of the loop of process_deployments and of main.py:26-45, for one
\* deployment; file_name is the name of the scaffold this iteration writes.
MaterializeOne(d, deployment, file_name) ==
  create_empty_yml_vars_file(
    create_variables_file(create_maintf_file(d, deployment),
                          deployment, deployment.child_modules),
    file_name)

\* Terraframe.process_deployments.
RECURSIVE process_deployments(_, _)
process_deployments(d, deployments) ==
  IF deployments = <<>> THEN d
  ELSE process_deployments(
         MaterializeOne(d, Head(deployments),
                        Head(deployments).name \o "_deployment_vars.yaml"),
         Tail(deployments))

\* main.py:26-45.
RECURSIVE main_deployments(_, _)
main_deployments(d, deployments) ==
  IF deployments = <<>> THEN d
  ELSE main_deployments(
         MaterializeOne(d, Head(deployments), "virtual_colo_deployment_vars.yml"),
         Tail(deployments))

\* Files are generated after a walk that raised nothing.
Loaded ==
  /\ last.op \in {"create_all_models_from_yaml",
                  "Terraframe.create_all_models_from_yaml"}
  /\ last.err = OK

Materialized(op, d) ==
  /\ disk' = d
  /\ last' = [op |-> op, arg |-> <<>>, err |-> OK, ret |-> <<>>]
  /\ nops' = nops + 1
  /\ UNCHANGED <<records, rsi_dict, created_rs, doc, calls, class_template_name>>

DoProcessDeployments ==
  /\ Loaded
  /\ Materialized("Terraframe.process_deployments",
                  process_deployments(disk, get_all(St, DEP)))

DoMainDeployments ==
  /\ Loaded
  /\ Materialized("main", main_deployments(disk, get_all(St, DEP)))

NextLoad ==
  \/ DoExpandTemplates
  \/ DoCreateAllModels
  \/ DoTerraframeCreateAllModels
  \/ DoProcessDeployments
  \/ DoMainDeployments

SpecLoad == InitLoad /\ [][NextLoad]_vars

---------------------------------------------------------------------------
(* Vocabulary of the properties.                                           *)

StNext == [records |-> records', rsid |-> rsi_dict', tmpl |-> class_template_name']

InSeq(xs, x) == \E i \in DOMAIN xs : xs[i] = x

Range(xs) == {xs[i] : i \in DOMAIN xs}

\* A create that got as far as its final save (no lookup failed before it).
ReachedSave(l) == l.err \notin {NotFound, Ambiguous}

\* The identity key as a tuple of numbers: names by their rank.
IdKey(t, o) ==
  CASE t = DEP -> <<o.index, Ord(o.name)>>
    [] t = RSI -> <<Ord(o.var.name), Ord(o.output.name)>>
    [] OTHER   -> <<Ord(o.name)>>

\* Lexicographic <= on tuples of numbers of one length.
RECURSIVE TupleLeq(_, _)
TupleLeq(a, b) ==
  IF a = <<>> THEN TRUE
  ELSE IF Head(a) # Head(b) THEN Head(a) < Head(b)
       ELSE TupleLeq(Tail(a), Tail(b))

NonDecreasing(t, xs) ==
  \A i \in 1..(Len(xs) - 1) : TupleLeq(IdKey(t, xs[i]), IdKey(t, xs[i + 1]))

NoRepeat(xs) == \A i, j \in DOMAIN xs : i # j => xs[i] # xs[j]

\* The positions of the stored elements of type t whose attribute has the value.
Matching(t, attr, value) ==
  {i \in DOMAIN records[t] : records[t][i].obj[attr] = value}

---------------------------------------------------------------------------
(* C1.  Saving an entity whose identity key equals that of a stored entity *)
(* of its type while its other fields differ: a type that is not strict    *)
(* (RemoteState, ChildModule) stores it and get_all holds both; the strict *)
(* type (Deployment) fails with the duplicate error and its collection is  *)
(* unchanged.  Stated as the original claim; the code refutes the strict   *)
(* half.                                                                   *)

C1_NotStrict(t, l) ==
  ReachedSave(l) =>
    \A i \in DOMAIN records[t] :
      records[t][i].obj.name = l.arg.name =>
        /\ l.err = OK
        /\ records[t][i].obj # l.ret[1] =>
             /\ InSeq(get_all(StNext, t), records[t][i].obj)
             /\ InSeq(get_all(StNext, t), l.ret[1])

C1_Strict(l) ==
  LET r == ResolveChildModules(St, l.arg.child_modules, <<>>, <<>>)
      o == DeploymentOf(l.arg, r.cms, r.rss)
  IN (r.err = OK /\ \E i \in DOMAIN records[DEP] :
         /\ Key(DEP, records[DEP][i].obj) = Key(DEP, o)
         /\ records[DEP][i].obj # o)
     => l.err = Duplicate /\ records'[DEP] = records[DEP]

\* C1: a save whose identity key equals a stored entity's while other fields
\* differ succeeds and keeps both for a type that is not strict, and fails
\* with the duplicate error, the collection unchanged, for Deployment.
C1_SaveKeyEqualValueDifferent ==
  [][ /\ last'.op = "RemoteStateModel.create" => C1_NotStrict(RS, last')
      /\ last'.op = "ChildModuleModel.create" => C1_NotStrict(CM, last')
      /\ last'.op = "DeploymentModel.create" => C1_Strict(last') ]_vars

---------------------------------------------------------------------------
(* C2.  get(type, attribute=value): not found when no stored entity has    *)
(* the value, ambiguous when more than one stored entity has it, else the  *)
(* single stored entity that has it; the collections are unchanged.        *)
(* Stated as the original claim; two equal stored Deployments refute the   *)
(* ambiguous case.                                                         *)

\* C2: get fails as not found with no match, as ambiguous with more than one
\* stored match, returns the single stored match otherwise, and changes no
\* collection.
C2_GetOutcome ==
  [][ last'.op = "get" =>
        LET q == last'.arg
            m == Matching(q.t, q.attr, q.value)
        IN /\ m = {} => last'.err = NotFound
           /\ Cardinality(m) > 1 => last'.err = Ambiguous
           /\ Cardinality(m) = 1 =>
                /\ last'.err = OK
                /\ \E i \in m : last'.ret = <<records[q.t][i].obj>>
           /\ records' = records ]_vars

---------------------------------------------------------------------------
(* C3.  The original claim: after two RemoteState creates that both use    *)
(* the name "x", identical fields included, get(RemoteState, name="x")     *)
(* fails as ambiguous.  Stated for two creates in a row.                   *)

GetX(s) == get(s, RS, "name", "x")

\* C3 (original claim): after two creates named "x" in a row, whatever their
\* fields, get(RemoteState, name="x") fails as ambiguous.
C3_TwoCreatesAmbiguous ==
  [][ ( /\ last.op = "RemoteStateModel.create" /\ last.arg.name = "x"
        /\ last'.op = "RemoteStateModel.create" /\ last'.arg.name = "x" )
      => GetX(StNext).err = Ambiguous ]_vars

(* C3 as amended: once two creates named "x" with different fields (backend,*)
(* or config as printed) have run, get(RemoteState, name="x") fails as     *)
(* ambiguous; while every create named "x" so far had the same fields, it  *)
(* returns the one stored entity.                                          *)

CreatedX == {p \in created_rs : p.name = "x"}

\* C3 (as amended): two creates named "x" with different fields make the get
\* ambiguous; creates named "x" of one set of fields leave one entity, which
\* the get returns.
C3_DistinctCreatesAmbiguous ==
  /\ Cardinality(CreatedX) >= 2 => GetX(St).err = Ambiguous
  /\ \A p \in CreatedX :
       CreatedX = {p} => GetX(St).err = OK /\ GetX(St).obj = RemoteStateOf(p)

\* Two creates named "x" that differ only in the order of the config's keys
\* have run, and the second was the last operation.
C3_Witness ==
  /\ last.op = "RemoteStateModel.create"
  /\ last.arg = [name |-> "x", backend |-> "s3", config |-> CfgBA]
  /\ [name |-> "x", backend |-> "s3", config |-> CfgAB] \in created_rs
  /\ GetX(St).err = Ambiguous

---------------------------------------------------------------------------
(* C4.  For every type, get_all(type) lists its elements in non-decreasing *)
(* order of their identity keys, whatever the order of insertion.          *)

\* C4: get_all(type) is in non-decreasing order of identity key.
C4_GetAllSorted ==
  \A t \in ModelTypes : NonDecreasing(t, get_all(St, t))

\* Deployment (0, "e") was created after Deployment (1, "d") and stands
\* before it.
C4_Witness ==
  /\ last.op = "DeploymentModel.create" /\ last.err = OK
  /\ last.arg.index = 0
  /\ Len(records[DEP]) = 2
  /\ nops = 2
  /\ Key(DEP, get_all(St, DEP)[1]) = <<0, "e">>
  /\ Key(DEP, get_all(St, DEP)[2]) = <<1, "d">>

---------------------------------------------------------------------------
(* C5.  The original claim: no collection of the store holds two entities  *)
(* that are equal by full value, and saving an entity equal to a stored    *)
(* one of a type that is not strict succeeds and leaves the collection as  *)
(* it was.  All deployments share one mapping, so two stored deployments    *)
(* are equal by full value when their other fields are equal.              *)

\* C5: no collection holds two entities equal by full value, and creating a
\* RemoteState equal to a stored one succeeds and leaves the collection as
\* it was.
C5_NoEqualEntities ==
  [][ /\ \A t \in ModelTypes : NoRepeat(get_all(StNext, t))
      /\ ( /\ last'.op = "RemoteStateModel.create"
           /\ InSeq(get_all(St, RS), RemoteStateOf(last'.arg)) )
         => last'.err = OK /\ records'[RS] = records[RS] ]_vars

---------------------------------------------------------------------------
(* C6.  The original claim: every reference collection of a stored         *)
(* ChildModule (variables, bindings) and of a stored Deployment (child     *)
(* modules, remote states) holds no element twice and is ordered by the    *)
(* identity key of its elements.                                           *)

Canonical(t, xs) == NoRepeat(xs) /\ NonDecreasing(t, xs)

C6_DeploymentCanonical ==
  \A d \in Range(get_all(St, DEP)) :
    Canonical(CM, d.child_modules) /\ Canonical(RS, d.remote_states)

\* C6 (original claim): the reference collections of stored ChildModules and
\* Deployments hold no element twice and are ordered by identity key.
C6_AllCanonical ==
  /\ \A c \in Range(get_all(St, CM)) :
       Canonical(VAR, c.child_module_vars) /\ Canonical(RSI, c.remote_states_inputs)
  /\ C6_DeploymentCanonical

(* C6 as amended: the collections of a stored Deployment hold no element   *)
(* twice and are ordered by identity key; a stored ChildModule holds its   *)
(* variables in the order and with the repetition of the variable file,    *)
(* and a created ChildModule its bindings in the order and with the        *)
(* repetition of the payload's entries.                                    *)

\* C6 (as amended): a Deployment's collections are canonical; a ChildModule's
\* variables are those of its file, and its bindings those of the payload, in
\* the order and with the repetition written there.
C6_DeploymentCanonicalModuleAsWritten ==
  /\ C6_DeploymentCanonical
  /\ \A c \in Range(get_all(St, CM)) :
       LET file == get_all_variables_from_module(c.source) IN
       c.child_module_vars = [i \in DOMAIN file |-> [name |-> file[i]]]
  /\ (last.op = "ChildModuleModel.create" /\ last.err = OK) =>
       LET bs == last.ret[1].remote_states_inputs
           es == last.arg.remote_state_inputs
       IN /\ Len(bs) = Len(es)
          /\ \A i \in DOMAIN es :
               /\ bs[i].var.name = es[i].var
               /\ bs[i].output.name = es[i].output
               /\ bs[i].output.remote_state.name = es[i].remote_state

\* A Deployment was created from a payload that lists child module "n" before
\* "m", and from one that names remote state "y" before "x".
C6_Witness ==
  /\ last.op = "DeploymentModel.create" /\ last.err = OK
  /\ \/ /\ Len(last.arg.child_modules) = 2
        /\ last.arg.child_modules[1].name = "n"
        /\ last.ret[1].child_modules[1].name = "m"
     \/ /\ Len(last.ret[1].remote_states) = 2
        /\ last.arg.child_modules[1].remote_state_inputs[1].remote_state = "y"
        /\ last.ret[1].remote_states[1].name = "x"

---------------------------------------------------------------------------
(* C7.  The original claim: the remote_states of a Deployment that         *)
(* Deployment.create produced are exactly the RemoteStates referenced by   *)
(* the stored bindings of the child modules it resolved.                   *)

BindingsOf(cms) ==
  UNION {Range(cms[i].remote_states_inputs) : i \in DOMAIN cms}

\* C7 (original claim): a created Deployment's remote_states are exactly the
\* RemoteStates referenced by the bindings of its stored child modules.
C7_RemoteStatesOfStoredBindings ==
  (last.op = "DeploymentModel.create" /\ last.err = OK) =>
    Range(last.ret[1].remote_states) =
      {b.output.remote_state : b \in BindingsOf(last.ret[1].child_modules)}

(* C7 as amended: they are exactly the stored RemoteStates named by the    *)
(* remote_state_inputs entries of the child-module entries of the          *)
(* deployment's own payload.                                               *)

PayloadRemoteStateNames(p) ==
  UNION {{p.child_modules[i].remote_state_inputs[j].remote_state :
            j \in DOMAIN p.child_modules[i].remote_state_inputs} :
         i \in DOMAIN p.child_modules}

\* C7 (as amended): a created Deployment's remote_states are exactly the
\* stored RemoteStates named by the remote_state_inputs of its own payload.
C7_RemoteStatesOfPayload ==
  (last.op = "DeploymentModel.create" /\ last.err = OK) =>
    Range(last.ret[1].remote_states) =
      {r \in Range(get_all(St, RS)) : r.name \in PayloadRemoteStateNames(last.arg)}

\* The payload names remote state "x" for a child module stored without
\* bindings.
C7_Witness ==
  /\ last.op = "DeploymentModel.create" /\ last.err = OK
  /\ Len(last.ret[1].child_modules) = 1
  /\ last.ret[1].child_modules[1].remote_states_inputs = <<>>
  /\ Len(last.ret[1].remote_states) = 1

---------------------------------------------------------------------------
(* C8.  The original claim: right after Deployment.create the deployment's *)
(* mapping holds, for every binding b of every one of its child modules,   *)
(* b's variable name mapped to (name of b's remote state, name of b's      *)
(* output), and no other key; and the mapping of a deployment never        *)
(* changes afterwards.                                                     *)

DictHolds(d, k, v) == \E i \in DOMAIN d : d[i] = <<k, v>>

DictKeys(d) == {d[i][1] : i \in DOMAIN d}

\* C8: after Deployment.create the mapping holds every binding of the
\* deployment's child modules and no other key, and the mapping of a stored
\* deployment never changes afterwards.
C8_MappingIsUnionAndFrozen ==
  [][ /\ (last'.op = "DeploymentModel.create" /\ last'.err = OK) =>
           LET bs == BindingsOf(last'.ret[1].child_modules) IN
           /\ \A b \in bs :
                DictHolds(rsi_dict', b.var.name,
                          <<b.output.remote_state.name, b.output.name>>)
           /\ DictKeys(rsi_dict') = {b.var.name : b \in bs}
      /\ records[DEP] # <<>> => rsi_dict' = rsi_dict ]_vars

---------------------------------------------------------------------------
(* C9.  The original claim: every entity referenced by a stored            *)
(* ChildModule or Deployment is an element of the store's collection of    *)
(* its type; and a ChildModule.create or Deployment.create whose payload   *)
(* names a remote state, variable or child module that is not stored       *)
(* fails with the not-found error and stores no ChildModule, respectively  *)
(* no Deployment.                                                          *)

Stored(s, t, o) == InSeq(get_all(s, t), o)

StoredNames(t) == {o.name : o \in Range(get_all(St, t))}

ReferencesStored(s) ==
  /\ \A c \in Range(get_all(s, CM)) :
       /\ \A v \in Range(c.child_module_vars) : Stored(s, VAR, v)
       /\ \A b \in Range(c.remote_states_inputs) :
            /\ Stored(s, RSI, b)
            /\ Stored(s, VAR, b.var)
            /\ Stored(s, OUT, b.output)
            /\ Stored(s, RS, b.output.remote_state)
  /\ \A d \in Range(get_all(s, DEP)) :
       /\ \A c \in Range(d.child_modules) : Stored(s, CM, c)
       /\ \A r \in Range(d.remote_states) : Stored(s, RS, r)

\* The payload of a ChildModule.create names a remote state that is not
\* stored, or a variable that is neither stored nor in the module's file.
ModulePayloadNamesMissing(p) ==
  \E i \in DOMAIN p.remote_state_inputs :
    \/ p.remote_state_inputs[i].remote_state \notin StoredNames(RS)
    \/ /\ p.remote_state_inputs[i].var \notin StoredNames(VAR)
       /\ p.remote_state_inputs[i].var
            \notin Range(get_all_variables_from_module(p.source))

DeploymentPayloadNamesMissing(p) ==
  \/ \E i \in DOMAIN p.child_modules : p.child_modules[i].name \notin StoredNames(CM)
  \/ PayloadRemoteStateNames(p) \ StoredNames(RS) # {}

\* C9 (original claim): references of stored entities are stored, and a create
\* whose payload names something not stored fails as not found and stores no
\* ChildModule, respectively no Deployment.
C9_MissingReferenceNotFound ==
  [][ /\ ReferencesStored(StNext)
      /\ ( last'.op = "ChildModuleModel.create"
           /\ ModulePayloadNamesMissing(last'.arg) )
         => last'.err = NotFound /\ records'[CM] = records[CM]
      /\ ( last'.op = "DeploymentModel.create"
           /\ DeploymentPayloadNamesMissing(last'.arg) )
         => last'.err = NotFound /\ records'[DEP] = records[DEP] ]_vars

(* C9 as amended: such a create fails and stores no ChildModule,           *)
(* respectively no Deployment; it fails with the not-found error unless    *)
(* the payload also names a remote state or child module that several      *)
(* stored entities match, and then with the not-found or the               *)
(* ambiguous-result error, whichever lookup comes first.                   *)

NamesAmbiguous(t, names) ==
  \E n \in names : Cardinality(search(St, t, "name", n)) > 1

ModulePayloadRemoteStateNames(p) ==
  {p.remote_state_inputs[i].remote_state : i \in DOMAIN p.remote_state_inputs}

PayloadChildModuleNames(p) ==
  {p.child_modules[i].name : i \in DOMAIN p.child_modules}

\* C9 (as amended): references of stored entities are stored, and such a
\* create fails as not found, or as ambiguous when a name of its payload has
\* several stored matches, and stores no ChildModule, respectively no
\* Deployment.
C9_MissingReferenceFails ==
  [][ /\ ReferencesStored(StNext)
      /\ ( last'.op = "ChildModuleModel.create"
           /\ ModulePayloadNamesMissing(last'.arg) )
         => /\ last'.err \in {NotFound, Ambiguous}
            /\ last'.err = Ambiguous =>
                 NamesAmbiguous(RS, ModulePayloadRemoteStateNames(last'.arg))
            /\ records'[CM] = records[CM]
      /\ ( last'.op = "DeploymentModel.create"
           /\ DeploymentPayloadNamesMissing(last'.arg) )
         => /\ last'.err \in {NotFound, Ambiguous}
            /\ last'.err = Ambiguous =>
                 \/ NamesAmbiguous(RS, PayloadRemoteStateNames(last'.arg))
                 \/ NamesAmbiguous(CM, PayloadChildModuleNames(last'.arg))
            /\ records'[DEP] = records[DEP] ]_vars

\* A ChildModule.create that names remote state "y", stored twice, before
\* remote state "x", not stored, has failed as ambiguous.
C9_Witness ==
  /\ last.op = "ChildModuleModel.create"
  /\ last.arg.remote_state_inputs = InputsBoth
  /\ last.err = Ambiguous
  /\ "x" \notin StoredNames(RS)
  /\ records[CM] = <<>>

---------------------------------------------------------------------------
(* C10: the walk of a mapping.                                             *)

WalkOps ==
  {"create_all_models_from_yaml", "Terraframe.create_all_models_from_yaml"}

\* The errors a create raises on a payload: the store's, and KeyError for a
\* key the payload lacks.
CreateErrors == {NotFound, Ambiguous, Duplicate, "KeyError"}

IsPrefix(a, b) == Len(a) <= Len(b) /\ SubSeq(b, 1, Len(a)) = a

\* The factory invocations a sequence of mappings asks for: one per key that
\* names a directive, in key order, each after those of the elements of its
\* list.
RECURSIVE DirectiveCalls(_)
DirectiveCalls(ms) ==
  IF ms = <<>> THEN <<>>
  ELSE IF Head(ms) = <<>> THEN DirectiveCalls(Tail(ms))
  ELSE LET k    == Head(Head(ms))[1]
           v    == Head(Head(ms))[2]
           rest == DirectiveCalls(<<Tail(Head(ms))>> \o Tail(ms))
       IN  IF \A t \in ModelTypes : YamlDirective(t) # k THEN rest
           ELSE (IF v.kind = "list" THEN DirectiveCalls(v.items) ELSE <<>>)
                \o <<[cls |-> CHOOSE t \in ModelTypes : YamlDirective(t) = k,
                      data |-> v]>>
                \o rest

\* C10: walking a mapping invokes the factory of an entity type for exactly
\* the keys that name a directive, in the order of the keys, after walking
\* the elements of a list-valued match; a walk ends in no error other than
\* one raised by a create, so a key that names no directive raises none, and
\* a document without directive keys leaves the store empty.
C10_WalkInvokesDirectiveFactories ==
  last.op \in WalkOps =>
    /\ last.err \in {OK} \cup CreateErrors
    /\ IsPrefix(calls, DirectiveCalls(<<doc>>))
    /\ (last.err = OK => calls = DirectiveCalls(<<doc>>))
    /\ (DirectiveCalls(<<doc>>) = <<>> =>
          \A t \in ModelTypes : records[t] = <<>>)

---------------------------------------------------------------------------
(* C11: deployment-template expansion.                                     *)

Keys(m) == {m[i][1] : i \in DOMAIN m}

\* The templates of a document: those of its deployment_templates section,
\* none when the document has no such section.
TemplatesOf(d) ==
  IF HasKey(d, "deployment_templates")
  THEN Field(d, "deployment_templates").m ELSE <<>>

EntriesOf(d) ==
  IF HasKey(d, "deployments") THEN Field(d, "deployments").items ELSE <<>>

\* The entry e, expanded, is e2.
EntryExpanded(templates, e, e2) ==
  LET named == HasKey(e, "deployment_template")
               /\ HasKey(templates, Field(e, "deployment_template").v)
      tpl   == IF named
               THEN Field(templates, Field(e, "deployment_template").v).m
               ELSE <<>>
  IN  /\ ~ HasKey(e2, "deployment_template")
      /\ \A k \in Keys(tpl) : HasKey(e2, k) /\ Field(e2, k) = Field(tpl, k)
      /\ \A k \in Keys(e) \ (Keys(tpl) \cup {"deployment_template"}) :
           HasKey(e2, k) /\ Field(e2, k) = Field(e, k)

\* C11: the expansion of a document that has a deployments section, with a
\* deployment_templates section that is non-empty, empty or absent, raises
\* no error; afterwards every entry that named a template of the section
\* holds the template's keys with the template's values and keeps its other
\* keys, no entry holds a deployment_template key, and the document holds no
\* deployment_templates key.
C11_ExpansionPostcondition ==
  [][ (last'.op = "exapand_terraframe_templates" /\ HasKey(doc, "deployments")) =>
        /\ last'.err = OK
        /\ ~ HasKey(doc', "deployment_templates")
        /\ Len(EntriesOf(doc')) = Len(EntriesOf(doc))
        /\ \A i \in DOMAIN EntriesOf(doc) :
             EntryExpanded(TemplatesOf(doc), EntriesOf(doc)[i], EntriesOf(doc')[i])
    ]_vars

---------------------------------------------------------------------------
(* C12: the order of creation in a load.                                   *)

\* The names of the entities a factory invocation is given to create.
NamesOf(c) ==
  LET items == IF c.data.kind = "dict" THEN <<c.data.m>> ELSE c.data.items IN
  {Field(items[k], "name").v : k \in DOMAIN items}

\* The names the j-th invocation is the first of its class to create.
FirstCreated(j) ==
  NamesOf(calls[j]) \
    UNION {NamesOf(calls[k]) : k \in {n \in 1..(j - 1) : calls[n].cls = calls[j].cls}}

\* C12: in a load that succeeds, whatever the order of the sections, every
\* RemoteState and every ChildModule is created before the first Deployment:
\* no factory invocation that creates a RemoteState or ChildModule not
\* created before follows one that creates Deployments.
C12_DependenciesBeforeDeployments ==
  (last.op \in WalkOps /\ last.err = OK) =>
    \A i, j \in DOMAIN calls :
      ( /\ calls[i].cls = DEP /\ NamesOf(calls[i]) # {}
        /\ calls[j].cls \in {RS, CM} /\ FirstCreated(j) # {} ) => j < i

---------------------------------------------------------------------------
(* C13, C14: the generated files.                                          *)

MaterializeOps == {"Terraframe.process_deployments", "main"}

\* The content a path holds, <<>> standing for no file.
FileAt(path) ==
  IF HasKey(disk.files, path) THEN <<Field(disk.files, path)>> ELSE <<>>

\* The renderings of the variables of the child modules cms, module after
\* module, each with the deployment's prefix.
RECURSIVE RenderingsOf(_, _)
RenderingsOf(deployment, cms) ==
  IF cms = <<>> THEN <<>>
  ELSE [i \in DOMAIN Head(cms).child_module_vars |->
          RenderVariable(Head(cms).child_module_vars[i],
                         [prefix |-> deployment.prefix])]
       \o RenderingsOf(deployment, Tail(cms))

\* C13: after materialization the variables file of every stored deployment
\* holds the concatenation of the renderings of every variable of every one
\* of its child modules, each rendered with the deployment's prefix.
C13_VariablesFileHoldsAllModules ==
  last.op \in MaterializeOps =>
    \A i \in DOMAIN records[DEP] :
      LET dep == records[DEP][i].obj IN
      FileAt(<<dep.name, "variables.tf">>)
        = <<RenderingsOf(dep, dep.child_modules)>>

\* The positions of the writes of project-level files (the scaffold).
ScaffoldWrites == {i \in DOMAIN disk.writes : Len(disk.writes[i].path) = 1}

\* The prefixed names of the variables of a deployment's child modules.
PrefixedNames(dep) ==
  {RenderingsOf(dep, dep.child_modules)[k].quoted :
     k \in DOMAIN RenderingsOf(dep, dep.child_modules)}

\* C14: in a materialization run over n >= 1 stored deployments the scaffold
\* is written exactly once, after the files of all the deployments, and it
\* maps exactly the names of the stored deployments, each to its prefixed
\* variable names.
C14_ScaffoldWrittenOnceAtEnd ==
  (last.op \in MaterializeOps /\ records[DEP] # <<>>) =>
    /\ ScaffoldWrites = {Len(disk.writes)}
    /\ disk.writes[Len(disk.writes)].content
         = {<<records[DEP][i].obj.name, PrefixedNames(records[DEP][i].obj)>> :
              i \in DOMAIN records[DEP]}

---------------------------------------------------------------------------
(* Creations whose payload may carry a template_name field.                *)

\* Number of creations of one run.
MaxNamedOps == 3

TemplateNames == {"t1", "t2"}

\* The payload p with the field template_name.
Named(p, tn) ==
  [k \in DOMAIN p \cup {"template_name"} |->
     IF k = "template_name" THEN tn ELSE p[k]]

\* The payloads ps, as they are and with each template name.
NamedPayloads(ps) == ps \cup {Named(p, tn) : p \in ps, tn \in TemplateNames}

VarPayloads == {[name |-> "u"], [name |-> "v"]}

DoNamedRemoteStateCreate ==
  /\ nops < MaxNamedOps
  /\ \E p \in NamedPayloads(RemoteStatePayloads) :
       /\ Ran("RemoteStateModel.create", p, RemoteStateCreate(St, p))
       /\ created_rs' = created_rs \cup {p}

DoNamedVarCreate ==
  /\ nops < MaxNamedOps
  /\ \E p \in NamedPayloads(VarPayloads) :
       Ran("ChildModuleVarModel.create", p,
           RenderableCreate(St, VAR, [name |-> p.name], p))
  /\ UNCHANGED created_rs

DoNamedChildModuleCreate ==
  /\ nops < MaxNamedOps
  /\ \E p \in NamedPayloads(ChildModulePayloads) :
       Ran("ChildModuleModel.create", p, ChildModuleCreate(St, p))
  /\ UNCHANGED created_rs

DoNamedDeploymentCreate ==
  /\ nops < MaxNamedOps
  /\ \E p \in NamedPayloads(DeploymentPayloads) :
       Ran("DeploymentModel.create", p, DeploymentCreate(St, p))
  /\ UNCHANGED created_rs

NextTemplate ==
  \/ DoNamedRemoteStateCreate
  \/ DoNamedVarCreate
  \/ DoNamedChildModuleCreate
  \/ DoNamedDeploymentCreate

SpecTemplate == Init /\ [][NextTemplate]_vars

---------------------------------------------------------------------------
(* C15: the template name of a created entity.                             *)

\* The class whose create the operation op is.
ClassOfCreate(op) ==
  CASE op = "RemoteStateModel.create"    -> RS
    [] op = "ChildModuleVarModel.create" -> VAR
    [] op = "ChildModuleModel.create"    -> CM
    [] op = "DeploymentModel.create"     -> DEP

RenderableCreates ==
  {"RemoteStateModel.create", "ChildModuleVarModel.create",
   "ChildModuleModel.create", "DeploymentModel.create"}

\* C15: for every creation that returns an entity, the entity's template
\* name is the class's declared one ("variables" for ChildModuleVarModel),
\* otherwise the template_name of the creation's own payload, otherwise the
\* name derived from the class name.
C15_TemplateNameOfCreation ==
  (last.op \in RenderableCreates /\ last.err = OK) =>
    LET t == ClassOfCreate(last.op) IN
    class_template_name[t]
      = IF t = VAR THEN "variables"
        ELSE IF Informed(last.arg) # "None" THEN Informed(last.arg)
        ELSE ClassTemplateName(t)

---------------------------------------------------------------------------
(* C16: a Deployment created twice.                                        *)

\* The number of stored deployments equal to o.
StoredCopies(recs, o) ==
  Cardinality({i \in DOMAIN recs[DEP] : recs[DEP][i].obj = o})

\* C16: a DeploymentModel.create that follows a successful one with the
\* identical payload fails with the duplicate-entity error and the collection
\* holds exactly one such deployment, with or without bindings in the
\* deployment's child modules.
C16_SecondIdenticalDeploymentFails ==
  [][ ( /\ last.op = "DeploymentModel.create" /\ last.err = OK
        /\ last'.op = "DeploymentModel.create" /\ last'.arg = last.arg )
      => ( /\ last'.err = Duplicate
           /\ StoredCopies(records', last.ret[1]) = 1 ) ]_vars

---------------------------------------------------------------------------
(* C17: a create that fails.                                               *)

CreateOps ==
  {"RemoteStateModel.create", "ChildModuleModel.create", "DeploymentModel.create"}

\* C17: a create that fails with a not-found or an ambiguous-result error
\* leaves every collection exactly as it was before the call; in particular
\* a failing ChildModuleModel.create leaves no ChildModuleVarModel,
\* ChildModuleOutputModel or RemoteStatateInputModel behind.
C17_FailingCreateLeavesCollections ==
  [][ (last'.op \in CreateOps /\ last'.err \in {NotFound, Ambiguous})
      => records' = records ]_vars

---------------------------------------------------------------------------
(* C18: the bindings of a stored child module.                             *)

\* C18: for every stored ChildModuleModel, the variable of each of its
\* bindings is an element of its own child_module_vars.
C18_BindingVariableIsOwn ==
  \A i \in DOMAIN records[CM] :
    LET cm == records[CM][i].obj IN
    \A k \in DOMAIN cm.remote_states_inputs :
      InSeq(cm.child_module_vars, cm.remote_states_inputs[k].var)

====
